---- MODULE Spec2Model ----
(***************************************************************************)
(* Model of main.py: export of a Luigi's Box catalog to a CSV file.        *)
(*                                                                         *)
(* export_catalog validates the credential pair, iterate_all_objects      *)
(* follows links[rel == 'next'] page by page through request_json (which   *)
(* signs every request with build_signed_headers), and                     *)
(* write_objects_to_csv flattens the accumulated objects into one CSV.     *)
(*                                                                         *)
(* Python values are records tagged by their type: [null |-> TRUE] is      *)
(* None, [str |-> s] a string, [num |-> n] a number, [bool |-> b] a        *)
(* boolean, [list |-> <<...>>] a list and [dict |-> <<<<k, v>>, ...>>] a   *)
(* dict in insertion order.  The credentials, on which the code calls      *)
(* startswith, are [chars |-> <<...>>].  A URL string is the record of its *)
(* parts, [base, path, query]; the empty string is the URL whose parts are *)
(* all empty.                                                              *)
(***************************************************************************)
EXTENDS Integers, Sequences, FiniteSets, TLC

VARIABLES
    pc,            \* position of the run inside export_catalog
    error,         \* the exception that ended the run, NoError otherwise
    PUBLIC_KEY,    \* os.getenv("TRACKER_ID")
    PRIVATE_KEY,   \* os.getenv("API_KEY")
    now,           \* the last reading of the clock, in ticks
    url,           \* iterate_all_objects: the URL of the next request
    objects,       \* iterate_all_objects: the accumulator
    requests,      \* every GET issued so far: [url, headers]
    pages,         \* every response received so far: [status, body]
    dirExists,     \* the output directory exists
    file,          \* the output file: NoFile or [header, rows, open]
    fsLog,         \* the filesystem calls made by this run, in order
    attr_keys,     \* write_objects_to_csv: collect_attribute_keys(objects)
    fieldnames,    \* write_objects_to_csv: the column names
    idx,           \* write_objects_to_csv: index of the object of the for loop
    row            \* write_objects_to_csv: the row dict of the current object

vars == <<pc, error, PUBLIC_KEY, PRIVATE_KEY, now, url, objects, requests,
          pages, dirExists, file, fsLog, attr_keys, fieldnames, idx, row>>

----------------------------------------------------------------------------
(* Bounds of the model *)

MaxPages == 3          \* responses the server gives before it must stop
MaxObjects == 3        \* objects the server holds in total
MaxPageObjects == 2    \* objects on one page
MaxClock == 2          \* the clock is read up to this tick
MaxCsvObjects == 2     \* length of the list given to write_objects_to_csv

----------------------------------------------------------------------------
(* Python values *)

None == [null |-> TRUE]
Str(s) == [str |-> s]
Num(n) == [num |-> n]
Bool(b) == [bool |-> b]
List(l) == [list |-> l]
Dict(d) == [dict |-> d]
Chars(c) == [chars |-> c]

IsNone(v) == "null" \in DOMAIN v
IsStr(v) == "str" \in DOMAIN v
IsNum(v) == "num" \in DOMAIN v
IsBool(v) == "bool" \in DOMAIN v
IsList(v) == "list" \in DOMAIN v
IsDict(v) == "dict" \in DOMAIN v
IsChars(v) == "chars" \in DOMAIN v
IsUrl(v) == "path" \in DOMAIN v

Url(b, p, q) == [base |-> b, path |-> p, query |-> q]
EmptyUrl == Url("", "", "")

\* bool(v): what `not v`, `v or w` and `while v` test
Truthy(v) ==
    CASE IsNone(v) -> FALSE
      [] IsStr(v) -> v.str # ""
      [] IsNum(v) -> v.num # 0
      [] IsBool(v) -> v.bool
      [] IsList(v) -> v.list # <<>>
      [] IsDict(v) -> v.dict # <<>>
      [] IsChars(v) -> v.chars # <<>>
      [] IsUrl(v) -> v # EmptyUrl
      [] OTHER -> TRUE

\* d.get(key, default) on a dict held as a record
Get(d, key, default) == IF key \in DOMAIN d THEN d[key] ELSE default

\* d.keys() and d.get(key) on a dict held as a sequence of pairs
DictKeys(d) == {d[i][1] : i \in 1..Len(d)}
DictGet(d, key) ==
    IF key \in DictKeys(d)
    THEN d[CHOOSE i \in 1..Len(d) : d[i][1] = key][2]
    ELSE None

Range(s) == {s[i] : i \in 1..Len(s)}

----------------------------------------------------------------------------
(* Configuration *)

HIT_FIELDS == <<"title", "web_url">>
REQUESTED_TYPES == <<"serie">>
PAGE_SIZE == 500
OUTPUT_CSV == [dir |-> "catalog", name |-> "luigisbox_catalog_export.csv"]
BASE_URL == "https://live.luigisbox.com"
CONTENT_TYPE == "application/json; charset=utf-8"

\* the values the environment can give a credential: unset, empty, a
\* placeholder such as <your-key>, and a real key
Credentials ==
    {None, Chars(<<>>), Chars(<<"<", "k", ">">>), Chars(<<"k", "<">>)}

----------------------------------------------------------------------------
(* HMAC auth helpers *)

\* base64(HMAC_SHA256(private_key, data)): the digest is held as the pair
\* of its key and its data, so that two digests are equal exactly when
\* key and data are
compute_digest(private_key, method, endpoint, date_str, content_type) ==
    [key |-> private_key,
     data |-> <<method, content_type, date_str, endpoint>>]

\* UrlPath that keeps the query string
UrlPath_with_query(full_url) ==
    IF full_url.query = "" THEN full_url.path
    ELSE full_url.path \o "?" \o full_url.query

\* urlparse(full_url).path
UrlPath(full_url) == full_url.path

\* ticks of the clock in one second: datetime.now has a finer resolution
\* than the HTTP-date that format_datetime prints
TicksPerSecond == 2

\* format_datetime that prints the clock reading at its full resolution
format_datetime_ticks(now_utc) == now_utc

\* format_datetime(now_utc): an HTTP-date has a resolution of one second
format_datetime(now_utc) == now_utc \div TicksPerSecond

\* build_signed_headers signing the date of the previous clock reading
build_signed_headers_stale_date(full_url, method, now_utc) ==
    LET endpoint == UrlPath(full_url)
        date_str == format_datetime(now_utc)
        digest == compute_digest(PRIVATE_KEY, method, endpoint,
                                 format_datetime(now), CONTENT_TYPE)
    IN  [ContentType |-> CONTENT_TYPE,
         Date |-> date_str,
         Authorization |-> [scheme |-> "ApiAuth", public_key |-> PUBLIC_KEY,
                            digest |-> digest],
         AcceptEncoding |-> "gzip, deflate"]

build_signed_headers(full_url, method, now_utc) ==
    LET endpoint == UrlPath(full_url)
        date_str == format_datetime(now_utc)
        digest == compute_digest(PRIVATE_KEY, method, endpoint, date_str,
                                 CONTENT_TYPE)
    IN  [ContentType |-> CONTENT_TYPE,
         Date |-> date_str,
         Authorization |-> [scheme |-> "ApiAuth", public_key |-> PUBLIC_KEY,
                            digest |-> digest],
         AcceptEncoding |-> "gzip, deflate"]

----------------------------------------------------------------------------
(* Export / pagination *)

RECURSIVE Join(_, _)
\* sep.join(l)
Join(l, sep) ==
    IF l = <<>> THEN ""
    ELSE IF Len(l) = 1 THEN l[1]
    ELSE l[1] \o sep \o Join(Tail(l), sep)

\* urlencode(params): key=value pairs joined by &, a comma inside a value
\* quoted as %2C (the field and type names hold no other reserved character)
urlencode(params) ==
    Join([i \in 1..Len(params) |->
             params[i][1] \o "=" \o Join(params[i][2], "%2C")], "&")

build_first_page_url ==
    LET p1 == IF PAGE_SIZE # 0
              THEN <<<<"size", <<ToString(PAGE_SIZE)>>>>>> ELSE <<>>
        p2 == IF HIT_FIELDS # <<>>
              THEN <<<<"hit_fields", HIT_FIELDS>>>> ELSE <<>>
        p3 == IF REQUESTED_TYPES # <<>>
              THEN <<<<"requested_types", REQUESTED_TYPES>>>> ELSE <<>>
        params == p1 \o p2 \o p3
    IN  IF params # <<>>
        THEN Url(BASE_URL, "/v1/content_export", urlencode(params))
        ELSE Url(BASE_URL, "/v1/content_export", "")

\* resp_ok that takes only a server error for a failure
resp_ok_below_500(status) == status < 500

\* resp.ok / raise_for_status: a status of 400 to 599 raises HTTPError
resp_ok(status) == ~(status >= 400 /\ status < 600)

\* data.get("objects", []) or []
page_objects_of(data) ==
    LET o == Get(data, "objects", List(<<>>))
    IN  IF Truthy(o) THEN o.list ELSE <<>>

\* data.get("links", []) or []
page_links_of(data) ==
    LET l == Get(data, "links", List(<<>>))
    IN  IF Truthy(l) THEN l.list ELSE <<>>

\* next_link_of with next_link initialised to the current URL instead of None
next_link_of_default_url(data) ==
    LET links == IF Truthy(Get(data, "links", List(<<>>)))
                 THEN Get(data, "links", List(<<>>)).list ELSE <<>>
        nexts == {i \in 1..Len(links) :
                     Get(links[i], "rel", None) = Str("next")}
    IN  IF nexts = {} THEN url
        ELSE LET first == CHOOSE i \in nexts : \A j \in nexts : i <= j
             IN  Get(links[first], "href", None)

\* the for loop over the links: the href of the first link whose rel is
\* "next" (None when that link has no href), None when there is no such link
next_link_of(data) ==
    LET links == page_links_of(data)
        nexts == {i \in 1..Len(links) :
                     Get(links[i], "rel", None) = Str("next")}
    IN  IF nexts = {} THEN None
        ELSE LET first == CHOOSE i \in nexts : \A j \in nexts : i <= j
             IN  Get(links[first], "href", None)

----------------------------------------------------------------------------
(* The server *)

SeqsUpTo(S, n) == UNION {[1..k -> S] : k \in 0..n}

ObjA ==
    [url |-> Str("a"), type |-> Str("item"), exact |-> Bool(TRUE),
     attributes |-> Dict(<<<<"x", Num(1)>>,
                           <<"y", List(<<Num(1), Str("b")>>)>>>>),
     nested |-> List(<<Dict(<<<<"k", Num(1)>>>>)>>)]
ObjB ==
    [url |-> Str("b"),
     attributes |-> Dict(<<<<"y", Str("s")>>, <<"z", None>>>>)]
ObjC ==
    [url |-> Str("c"), type |-> Str("item"), attributes |-> None,
     nested |-> List(<<>>)]
ObjN ==
    [url |-> Str("n"), exact |-> Bool(FALSE),
     attributes |-> Dict(<<<<"url", Str("U")>>, <<"nested", Str("N")>>>>)]

ObjD == [url |-> Str("d")]

\* the objects the server holds
ServerObjects == {ObjA, ObjB}

UrlX == Url(BASE_URL, "/v1/content_export", "cursor=abc")
UrlY == Url(BASE_URL, "/v1/content_export/more", "cursor=xyz")

Link(rel, href) == [rel |-> Str(rel), href |-> href]

\* the usual values of `links` in a page response
ServerLinks == {List(<<>>), List(<<Link("next", UrlX)>>)}

\* page responses of an unusual shape: keys that are missing or null, a
\* next link that is not the first link, that has an empty href or none, a
\* link without rel
OddBodies ==
    {[total |-> None, objects |-> None, links |-> None],
     [total |-> Num(0)],
     [total |-> Num(7), objects |-> List(<<ObjC>>)],
     [objects |-> List(<<ObjD>>)],
     [links |-> List(<<Link("self", UrlX), Link("next", UrlY)>>)],
     [total |-> Num(1), objects |-> List(<<ObjB>>),
      links |-> List(<<Link("next", UrlY), Link("next", UrlX)>>)],
     [objects |-> List(<<>>), links |-> List(<<Link("next", EmptyUrl)>>)],
     [objects |-> List(<<ObjN>>),
      links |-> List(<<[rel |-> Str("next")], Link("next", UrlX)>>)],
     [objects |-> List(<<>>), links |-> List(<<[href |-> UrlX]>>)]}

\* the JSON bodies of a successful page response with at most n objects
ServerBodies(n) ==
    {[total |-> None, objects |-> List(o), links |-> l] :
        o \in SeqsUpTo(ServerObjects, n), l \in ServerLinks}
    \cup {b \in OddBodies : Len(page_objects_of(b)) <= n}

HttpStatuses == {200, 404, 503}

Min(a, b) == IF a < b THEN a ELSE b

\* the responses the server can give to the next request: an error status,
\* or a page of its remaining objects; its last page carries no next link
ServerResponses ==
    LET n == Min(MaxPageObjects, MaxObjects - Len(objects))
    IN  {[status |-> s, body |-> Str("error")] :
            s \in {t \in HttpStatuses : ~resp_ok(t)}}
        \cup
        {[status |-> s, body |-> b] :
            s \in {t \in HttpStatuses : resp_ok(t)},
            b \in {c \in ServerBodies(n) :
                      Len(pages) + 1 >= MaxPages
                          => ~Truthy(next_link_of(c))}}

----------------------------------------------------------------------------
(* The run *)

NoError == "none"
NoFile == [absent |-> TRUE]
OldFile == [header |-> <<"old">>, rows |-> <<>>, open |-> FALSE]
NoRow == <<>>

Init ==
    /\ pc = "Idle"
    /\ error = NoError
    /\ PUBLIC_KEY \in Credentials
    /\ PRIVATE_KEY \in Credentials
    /\ now = 0
    /\ url = None
    /\ objects = <<>>
    /\ requests = <<>>
    /\ pages = <<>>
    /\ dirExists \in BOOLEAN
    /\ file \in (IF dirExists THEN {NoFile, OldFile} ELSE {NoFile})
    /\ fsLog = <<>>
    /\ attr_keys = <<>>
    /\ fieldnames = <<>>
    /\ idx = 0
    /\ row = NoRow

\* k.startswith("<")
StartsWithLt(k) == Len(k.chars) > 0 /\ k.chars[1] = "<"

\* credential_rejected without the placeholder test
credential_rejected_if_empty(k) == ~Truthy(k)

\* `not KEY or KEY.startswith("<")`
credential_rejected(k) == ~Truthy(k) \/ StartsWithLt(k)

\* the run of the script starts: export_catalog is called
Start ==
    /\ pc = "Idle"
    /\ pc' = "Validating"
    /\ UNCHANGED <<error, PUBLIC_KEY, PRIVATE_KEY, now, url, objects,
                   requests, pages, dirExists, file, fsLog, attr_keys,
                   fieldnames, idx, row>>

\* Validate that creates the output directory before the pages are fetched
Validate_makedirs ==
    /\ pc = "Validating"
    /\ IF credential_rejected(PUBLIC_KEY) \/ credential_rejected(PRIVATE_KEY)
       THEN /\ pc' = "Failed"
            /\ error' = "RuntimeError"
            /\ UNCHANGED <<url, objects, dirExists, fsLog>>
       ELSE /\ pc' = "Fetching"
            /\ objects' = <<>>
            /\ url' = build_first_page_url
            /\ dirExists' = TRUE
            /\ fsLog' = IF dirExists THEN fsLog
                        ELSE Append(fsLog, "makedirs")
            /\ UNCHANGED error
    /\ UNCHANGED <<PUBLIC_KEY, PRIVATE_KEY, now, requests, pages, file,
                   attr_keys, fieldnames, idx, row>>

\* export_catalog, the two credential checks; then iterate_all_objects up
\* to the head of its loop
Validate ==
    /\ pc = "Validating"
    /\ IF credential_rejected(PUBLIC_KEY) \/ credential_rejected(PRIVATE_KEY)
       THEN /\ pc' = "Failed"
            /\ error' = "RuntimeError"
            /\ UNCHANGED <<url, objects>>
       ELSE /\ pc' = "Fetching"
            /\ objects' = <<>>
            /\ url' = build_first_page_url
            /\ UNCHANGED error
    /\ UNCHANGED <<PUBLIC_KEY, PRIVATE_KEY, now, requests, pages, dirExists,
                   file, fsLog, attr_keys, fieldnames, idx, row>>

\* extend that skips the objects the accumulator already holds
extend_dedup(objs, page_objects) ==
    objs \o SelectSeq(page_objects, LAMBDA o : o \notin Range(objs))

\* objects.extend(page_objects)
extend(objs, page_objects) == objs \o page_objects

\* pagination_done that also stops when the cursor repeats
pagination_done_on_repeat(next_link) == ~Truthy(next_link) \/ next_link = url

\* pagination_done with a cap of two pages
pagination_done_page_cap(next_link) ==
    ~Truthy(next_link) \/ Len(pages) + 1 >= 2

\* `if not next_link: break`
pagination_done(next_link) == ~Truthy(next_link)

\* next_url that applies the query parameters of the first page again
next_url_with_params(next_link) ==
    [next_link EXCEPT !.query = @ \o "&" \o build_first_page_url.query]

\* `url = next_link`
next_url(next_link) == next_link

\* the head of the while loop, and request_json up to requests.get: the
\* clock is read, the headers are built and the GET is sent
SendRequest ==
    /\ pc = "Fetching"
    /\ IF ~Truthy(url)
       THEN /\ pc' = "EnsureDir"
            /\ UNCHANGED <<error, now, requests>>
       ELSE IF ~IsChars(PRIVATE_KEY)
       THEN /\ pc' = "Failed"
            /\ error' = "AttributeError"
            /\ UNCHANGED <<now, requests>>
       ELSE \E t \in now..MaxClock :
            /\ now' = t
            /\ requests' = Append(requests,
                   [url |-> url,
                    headers |-> build_signed_headers(url, "GET", t)])
            /\ pc' = "Waiting"
            /\ UNCHANGED error
    /\ UNCHANGED <<PUBLIC_KEY, PRIVATE_KEY, url, objects, pages, dirExists,
                   file, fsLog, attr_keys, fieldnames, idx, row>>

\* the response arrives: the rest of request_json and the body of the
\* while loop
ReceiveResponse ==
    /\ pc = "Waiting"
    /\ \E resp \in ServerResponses :
        /\ pages' = Append(pages, resp)
        /\ IF ~resp_ok(resp.status)
           THEN /\ pc' = "Failed"
                /\ error' = "HTTPError"
                /\ UNCHANGED <<url, objects>>
           ELSE LET data == resp.body
                    next_link == next_link_of(data)
                IN  /\ objects' = extend(objects, page_objects_of(data))
                    /\ IF pagination_done(next_link)
                       THEN /\ pc' = "EnsureDir"
                            /\ UNCHANGED url
                       ELSE /\ pc' = "Fetching"
                            /\ url' = next_url(next_link)
                    /\ UNCHANGED error
    /\ UNCHANGED <<PUBLIC_KEY, PRIVATE_KEY, now, requests, dirExists, file,
                   fsLog, attr_keys, fieldnames, idx, row>>

----------------------------------------------------------------------------
(* CSV export *)

\* the characters of the attribute and column names, as code points:
\* sorted() orders strings by them
CodePoints ==
    [url |-> <<117, 114, 108>>,
     type |-> <<116, 121, 112, 101>>,
     exact |-> <<101, 120, 97, 99, 116>>,
     nested |-> <<110, 101, 115, 116, 101, 100>>,
     x |-> <<120>>,
     y |-> <<121>>,
     z |-> <<122>>,
     xy |-> <<120, 121>>,
     Z |-> <<90>>]

RECURSIVE LexLess(_, _)
\* a < b on the code points of two strings
LexLess(a, b) ==
    IF b = <<>> THEN FALSE
    ELSE IF a = <<>> THEN TRUE
    ELSE IF Head(a) # Head(b) THEN Head(a) < Head(b)
    ELSE LexLess(Tail(a), Tail(b))

\* str.__lt__
StrLess(k1, k2) == LexLess(CodePoints[k1], CodePoints[k2])

RECURSIVE sorted(_)
\* sorted(keys) of a set of strings
sorted(keys) ==
    IF keys = {} THEN <<>>
    ELSE LET m == CHOOSE k \in keys : \A o \in keys \ {k} : StrLess(k, o)
         IN  <<m>> \o sorted(keys \ {m})

\* obj.get("attributes") or {}
attrs_of(obj) ==
    LET a == Get(obj, "attributes", None)
    IN  IF Truthy(a) THEN a.dict ELSE <<>>

collect_attribute_keys(objs) ==
    sorted(UNION {DictKeys(attrs_of(objs[i])) : i \in 1..Len(objs)})

\* ["url", "type", "exact"] + attr_keys + ["nested"]
fieldnames_of(keys) == <<"url", "type", "exact">> \o keys \o <<"nested">>

RECURSIVE json_dumps(_)
\* json.dumps(value, ensure_ascii=False)
json_dumps(v) ==
    CASE IsNone(v) -> "null"
      [] IsStr(v) -> "\"" \o v.str \o "\""
      [] IsNum(v) -> ToString(v.num)
      [] IsBool(v) -> IF v.bool THEN "true" ELSE "false"
      [] IsList(v) ->
            "[" \o Join([i \in 1..Len(v.list) |-> json_dumps(v.list[i])],
                        ", ") \o "]"
      [] IsDict(v) ->
            "{" \o Join([i \in 1..Len(v.dict) |->
                            "\"" \o v.dict[i][1] \o "\": "
                                \o json_dumps(v.dict[i][2])], ", ") \o "}"

RECURSIVE set_attribute_cells(_, _, _)
\* the loop `for key in attr_keys` over the row dict
set_attribute_cells(r, attrs, keys) ==
    IF keys = <<>> THEN r
    ELSE LET key == Head(keys)
             value == DictGet(attrs, key)
             cell == IF IsDict(value) \/ IsList(value)
                     THEN Str(json_dumps(value))
                     ELSE value
         IN  set_attribute_cells([r EXCEPT ![key] = cell], attrs, Tail(keys))

\* build_row that reads nested without a default
build_row_nested_no_default(obj, keys, names) ==
    LET r0 == [k \in Range(names) |-> Str("")]
        r1 == [r0 EXCEPT !["url"] = Get(obj, "url", Str(""))]
        r2 == [r1 EXCEPT !["type"] = Get(obj, "type", Str(""))]
        r3 == [r2 EXCEPT !["exact"] = Get(obj, "exact", Str(""))]
        r4 == set_attribute_cells(r3, attrs_of(obj), keys)
    IN  [r4 EXCEPT !["nested"] = Str(json_dumps(Get(obj, "nested", None)))]

\* the row dict of one object, as the body of the for loop builds it
build_row(obj, keys, names) ==
    LET r0 == [k \in Range(names) |-> Str("")]
        r1 == [r0 EXCEPT !["url"] = Get(obj, "url", Str(""))]
        r2 == [r1 EXCEPT !["type"] = Get(obj, "type", Str(""))]
        r3 == [r2 EXCEPT !["exact"] = Get(obj, "exact", Str(""))]
        r4 == set_attribute_cells(r3, attrs_of(obj), keys)
    IN  [r4 EXCEPT
            !["nested"] = Str(json_dumps(Get(obj, "nested", List(<<>>))))]

\* the text csv.writer puts in a cell: None is the empty cell, a string
\* itself, a number or a boolean its str()
csv_cell(v) ==
    CASE IsNone(v) -> ""
      [] IsStr(v) -> v.str
      [] IsNum(v) -> ToString(v.num)
      [] IsBool(v) -> IF v.bool THEN "True" ELSE "False"

\* DictWriter.writerow: one cell per field name, in the order of fieldnames
row_cells(r, names) == [i \in 1..Len(names) |-> csv_cell(r[names[i]])]

\* write_objects_to_csv, `Ensure output directory exists`
\* EnsureDir returning at once when there is nothing to write
EnsureDir_skip_if_empty ==
    /\ pc = "EnsureDir"
    /\ IF objects = <<>>
       THEN /\ pc' = "Done"
            /\ UNCHANGED <<error, dirExists, fsLog>>
       ELSE IF OUTPUT_CSV.dir # "" /\ ~dirExists
       THEN \/ /\ dirExists' = TRUE
               /\ fsLog' = Append(fsLog, "makedirs")
               /\ pc' = "CollectKeys"
               /\ UNCHANGED error
            \/ /\ pc' = "Failed"
               /\ error' = "OSError"
               /\ UNCHANGED <<dirExists, fsLog>>
       ELSE /\ pc' = "CollectKeys"
            /\ UNCHANGED <<error, dirExists, fsLog>>
    /\ UNCHANGED <<PUBLIC_KEY, PRIVATE_KEY, now, url, objects, requests,
                   pages, file, attr_keys, fieldnames, idx, row>>

EnsureDir ==
    /\ pc = "EnsureDir"
    /\ IF OUTPUT_CSV.dir # "" /\ ~dirExists
       THEN \/ /\ dirExists' = TRUE
               /\ fsLog' = Append(fsLog, "makedirs")
               /\ pc' = "CollectKeys"
               /\ UNCHANGED error
            \/ /\ pc' = "Failed"
               /\ error' = "OSError"
               /\ UNCHANGED <<dirExists, fsLog>>
       ELSE /\ pc' = "CollectKeys"
            /\ UNCHANGED <<error, dirExists, fsLog>>
    /\ UNCHANGED <<PUBLIC_KEY, PRIVATE_KEY, now, url, objects, requests,
                   pages, file, attr_keys, fieldnames, idx, row>>

\* write_objects_to_csv, the column names
CollectKeys ==
    /\ pc = "CollectKeys"
    /\ attr_keys' = collect_attribute_keys(objects)
    /\ fieldnames' = fieldnames_of(attr_keys')
    /\ pc' = "OpenFile"
    /\ UNCHANGED <<error, PUBLIC_KEY, PRIVATE_KEY, now, url, objects,
                   requests, pages, dirExists, file, fsLog, idx, row>>

\* loop_pc that returns without closing the file
loop_pc_no_close(i) == IF i <= Len(objects) THEN "BuildRow" ELSE "Done"

\* loop_pc that stops one object early
loop_pc_skip_last(i) == IF i < Len(objects) THEN "BuildRow" ELSE "CloseFile"

\* the first object of the for loop, or the end of the with block
loop_pc(i) == IF i <= Len(objects) THEN "BuildRow" ELSE "CloseFile"

\* write_objects_to_csv: open(output_path, "w") truncates or creates the
\* file, writeheader writes the column names; open can fail, and so can
\* the write of the header, which leaves the file empty
OpenFile ==
    /\ pc = "OpenFile"
    /\ \/ /\ file' = [header |-> fieldnames, rows |-> <<>>, open |-> TRUE]
          /\ fsLog' = fsLog \o <<"open", "writeheader">>
          /\ idx' = 1
          /\ pc' = loop_pc(1)
          /\ UNCHANGED error
       \/ /\ pc' = "Failed"
          /\ error' = "OSError"
          /\ UNCHANGED <<file, fsLog, idx>>
       \/ /\ file' = [header |-> <<>>, rows |-> <<>>, open |-> FALSE]
          /\ fsLog' = Append(fsLog, "open")
          /\ pc' = "Failed"
          /\ error' = "OSError"
          /\ UNCHANGED idx
    /\ UNCHANGED <<PUBLIC_KEY, PRIVATE_KEY, now, url, objects, requests,
                   pages, dirExists, attr_keys, fieldnames, row>>

\* the body of the for loop up to writerow: the row dict of objects[idx]
\* BuildRow taking `attributes` out of the object it reads
BuildRow_pop_attributes ==
    /\ pc = "BuildRow"
    /\ row' = build_row(objects[idx], attr_keys, fieldnames)
    /\ objects' = [objects EXCEPT ![idx] =
                       [k \in DOMAIN @ \ {"attributes"} |-> @[k]]]
    /\ pc' = "WriteRow"
    /\ UNCHANGED <<error, PUBLIC_KEY, PRIVATE_KEY, now, url,
                   requests, pages, dirExists, file, fsLog, attr_keys,
                   fieldnames, idx>>

BuildRow ==
    /\ pc = "BuildRow"
    /\ row' = build_row(objects[idx], attr_keys, fieldnames)
    /\ pc' = "WriteRow"
    /\ UNCHANGED <<error, PUBLIC_KEY, PRIVATE_KEY, now, url, objects,
                   requests, pages, dirExists, file, fsLog, attr_keys,
                   fieldnames, idx>>

\* writer.writerow(row), and the step of the for loop; a failed write
\* leaves the rows written so far
WriteRow ==
    /\ pc = "WriteRow"
    /\ \/ /\ file' = [file EXCEPT
                         !.rows = Append(@, row_cells(row, fieldnames))]
          /\ fsLog' = Append(fsLog, "writerow")
          /\ idx' = idx + 1
          /\ pc' = loop_pc(idx + 1)
          /\ UNCHANGED error
       \/ /\ file' = [file EXCEPT !.open = FALSE]
          /\ pc' = "Failed"
          /\ error' = "OSError"
          /\ UNCHANGED <<fsLog, idx>>
    /\ UNCHANGED <<PUBLIC_KEY, PRIVATE_KEY, now, url, objects, requests,
                   pages, dirExists, attr_keys, fieldnames, row>>

\* the end of the with block and of export_catalog
CloseFile ==
    /\ pc = "CloseFile"
    /\ file' = [file EXCEPT !.open = FALSE]
    /\ pc' = "Done"
    /\ UNCHANGED <<error, PUBLIC_KEY, PRIVATE_KEY, now, url, objects,
                   requests, pages, dirExists, fsLog, attr_keys, fieldnames,
                   idx, row>>

Next ==
    \/ Start
    \/ Validate
    \/ SendRequest
    \/ ReceiveResponse
    \/ EnsureDir
    \/ CollectKeys
    \/ OpenFile
    \/ BuildRow
    \/ WriteRow
    \/ CloseFile

Spec == Init /\ [][Next]_vars

\* the run is one sequential flow: its next step is taken, and every
\* request receives a response
FairSpec == Spec /\ WF_vars(Next)

----------------------------------------------------------------------------
(* write_objects_to_csv called on a list of objects *)

ObjZ ==
    [url |-> None, type |-> Num(3),
     attributes |-> Dict(<<<<"Z", Bool(TRUE)>>, <<"xy", Dict(<<>>)>>,
                           <<"x", Str("")>>>>),
     nested |-> None]

\* the objects of the lists given to write_objects_to_csv
CsvObjects == {ObjA, ObjB, ObjC, ObjD, ObjN, ObjZ}

InitCsv ==
    /\ pc = "EnsureDir"
    /\ error = NoError
    /\ PUBLIC_KEY = Chars(<<"k", "<">>)
    /\ PRIVATE_KEY = Chars(<<"k", "<">>)
    /\ now = 0
    /\ url = None
    /\ objects \in SeqsUpTo(CsvObjects, MaxCsvObjects)
    /\ requests = <<>>
    /\ pages = <<>>
    /\ dirExists \in BOOLEAN
    /\ file \in (IF dirExists THEN {NoFile, OldFile} ELSE {NoFile})
    /\ fsLog = <<>>
    /\ attr_keys = <<>>
    /\ fieldnames = <<>>
    /\ idx = 0
    /\ row = NoRow

NextCsv ==
    \/ EnsureDir
    \/ CollectKeys
    \/ OpenFile
    \/ BuildRow
    \/ WriteRow
    \/ CloseFile

SpecCsv == InitCsv /\ [][NextCsv]_vars

----------------------------------------------------------------------------
(* Properties *)

\* what a page response carries, read off its JSON body: its next link is
\* the first link whose rel is next, and the page carries a next link when
\* that link has an href that is not empty
Links(body) ==
    IF "links" \in DOMAIN body /\ IsList(body.links)
    THEN body.links.list ELSE <<>>
IsNextEntry(l) == "rel" \in DOMAIN l /\ l.rel = Str("next")
NextHref(body) ==
    LET ls == SelectSeq(Links(body), IsNextEntry)
    IN  IF ls = <<>> THEN None
        ELSE IF "href" \in DOMAIN ls[1] THEN ls[1].href ELSE None
CarriesNext(body) == NextHref(body) \notin {None, EmptyUrl}
PageObjects(body) ==
    IF "objects" \in DOMAIN body /\ IsList(body.objects)
    THEN body.objects.list ELSE <<>>
HttpSuccess(resp) == resp.status < 400

\* iterate_all_objects has returned
Returned ==
    pc \in {"EnsureDir", "CollectKeys", "OpenFile", "BuildRow", "WriteRow",
            "CloseFile", "Done"}
    \/ (pc = "Failed" /\ error = "OSError")

\* C1: pagination ends at the first page response that carries no next
\* link, however many earlier pages carried the same next href: every page
\* before the last received one carried a next link, the request after a
\* page that carries a next link goes to that link's href whether or not
\* the href repeats the URL just fetched, and when iterate_all_objects has
\* returned there were exactly as many GET requests as pages, the last page
\* being the only one without a next link.
C1_EndsAtFirstPageWithoutNext ==
    /\ Len(requests) - Len(pages) \in {0, 1}
    /\ \A i \in 1..Len(pages) :
          i < Len(pages) => HttpSuccess(pages[i]) /\ CarriesNext(pages[i].body)
    /\ \A i \in 1..Len(pages) :
          HttpSuccess(pages[i]) /\ CarriesNext(pages[i].body)
              => IF i < Len(requests)
                 THEN requests[i + 1].url = NextHref(pages[i].body)
                 ELSE pc = "Fetching" /\ url = NextHref(pages[i].body)
    /\ Returned =>
          /\ Len(pages) >= 1
          /\ Len(requests) = Len(pages)
          /\ HttpSuccess(pages[Len(pages)])
          /\ ~CarriesNext(pages[Len(pages)].body)

\* pages 1 and 2 carried the same next href, page 3 carried none: three
\* GET requests, the last two to the same URL, and the loop has ended
C1_Witness ==
    /\ Returned
    /\ Len(pages) = 3
    /\ Len(requests) = 3
    /\ NextHref(pages[1].body) = UrlX
    /\ NextHref(pages[2].body) = UrlX
    /\ requests[2].url = UrlX
    /\ requests[3].url = UrlX
    /\ Links(pages[3].body) = <<>>

\* C2: a first page with an empty objects list and no next link gives
\* exactly one GET request and an empty object list.
C2_EmptyFirstPage ==
    (/\ Len(pages) >= 1
     /\ HttpSuccess(pages[1])
     /\ PageObjects(pages[1].body) = <<>>
     /\ ~CarriesNext(pages[1].body))
    => /\ Len(requests) = 1
       /\ Len(pages) = 1
       /\ objects = <<>>
       /\ Returned

C2_Witness ==
    /\ pc = "Done"
    /\ Len(requests) = 1
    /\ pages[1].body = [total |-> None, objects |-> List(<<>>),
                        links |-> List(<<>>)]
    /\ objects = <<>>

RECURSIVE ConcatPages(_)
\* the objects of the pages of successful responses, page after page
ConcatPages(ps) ==
    IF ps = <<>> THEN <<>>
    ELSE ConcatPages(SubSeq(ps, 1, Len(ps) - 1))
         \o (IF HttpSuccess(ps[Len(ps)])
             THEN PageObjects(ps[Len(ps)].body) ELSE <<>>)

\* C3: the accumulated list is the concatenation of the pages' objects in
\* page order and in the order within each page, nothing deduplicated,
\* dropped or reordered; so is the list iterate_all_objects returns.
C3_Concatenation == objects = ConcatPages(pages)

\* the same object on two pages is in the returned list twice
C3_Witness ==
    /\ Returned
    /\ Len(pages) = 2
    /\ PageObjects(pages[1].body) = <<ObjA, ObjB>>
    /\ PageObjects(pages[2].body) = <<ObjA>>
    /\ objects = <<ObjA, ObjB, ObjA>>

\* a credential that is missing, empty or a placeholder
MissingOrPlaceholder(c) ==
    IF c = None THEN TRUE
    ELSE c.chars = <<>> \/ Head(c.chars) = "<"
BadCredentials ==
    MissingOrPlaceholder(PUBLIC_KEY) \/ MissingOrPlaceholder(PRIVATE_KEY)

\* C4: with a credential missing, empty or a placeholder, the run fails
\* with the configuration error before any GET is issued and before any
\* output is written; the error is raised only by the check at the start
\* of the run, which is made once and never again while pages are fetched.
C4_ConfigurationErrorFirst ==
    /\ [](BadCredentials =>
            /\ requests = <<>>
            /\ pages = <<>>
            /\ fsLog = <<>>
            /\ pc \in {"Idle", "Validating", "Failed"}
            /\ (pc = "Failed" => error = "RuntimeError"))
    /\ [][BadCredentials => UNCHANGED <<dirExists, file>>]_vars
    /\ [][(error' = "RuntimeError" /\ error # "RuntimeError")
             => (pc = "Validating" /\ requests = <<>>)]_vars
    /\ [][pc' = "Validating" => pc = "Idle"]_vars

\* the public key is set, the private key is a placeholder
C4_Witness ==
    /\ pc = "Failed"
    /\ error = "RuntimeError"
    /\ PUBLIC_KEY = Chars(<<"k", "<">>)
    /\ PRIVATE_KEY = Chars(<<"<", "k", ">">>)
    /\ requests = <<>>
    /\ fsLog = <<>>

\* C5: a non-success status on any page request is fatal and not retried:
\* the response is the last one, no GET follows it, the run is failed with
\* the HTTP error, whatever was accumulated before, and nothing is written.
C5_HttpErrorIsFatal ==
    \A i \in 1..Len(pages) :
        ~HttpSuccess(pages[i]) =>
            /\ i = Len(pages)
            /\ Len(requests) = i
            /\ pc = "Failed"
            /\ error = "HTTPError"
            /\ fsLog = <<>>

\* the second page fails after the first page's objects were accumulated
C5_Witness ==
    /\ pc = "Failed"
    /\ error = "HTTPError"
    /\ Len(pages) = 2
    /\ Len(requests) = 2
    /\ pages[2].status = 503
    /\ objects = <<ObjA, ObjB>>

\* every page was fetched successfully and the last one carries no next link
FetchComplete ==
    /\ Len(pages) >= 1
    /\ Len(requests) = Len(pages)
    /\ \A i \in 1..Len(pages) : HttpSuccess(pages[i])
    /\ ~CarriesNext(pages[Len(pages)].body)

\* C6: no filesystem effect happens unless every page was fetched
\* successfully and pagination ended on a page without a next link: the
\* steps that change the directory or the file are taken after the last
\* request, no request follows a filesystem effect, and a run that failed
\* in validation, signing or pagination has left the output untouched.
C6_OutputOnlyAfterFetch ==
    /\ [][(dirExists' # dirExists \/ file' # file \/ fsLog' # fsLog)
             => (FetchComplete /\ UNCHANGED <<requests, pages>>)]_vars
    /\ [][requests' # requests => fsLog = <<>>]_vars
    /\ [](fsLog # <<>> => FetchComplete)
    /\ []((pc = "Failed" /\ error # "OSError") => fsLog = <<>>)

\* pagination fails on its second page and the old file is still there
C6_Witness ==
    /\ pc = "Failed"
    /\ error = "HTTPError"
    /\ Len(pages) = 2
    /\ fsLog = <<>>
    /\ dirExists
    /\ file = OldFile

\* the phase of the export a position of the code belongs to
Phase(p) ==
    CASE p \in {"Fetching", "Waiting"} -> "Fetching"
      [] p \in {"CollectKeys", "BuildRow"} -> "Flattening"
      [] p \in {"EnsureDir", "OpenFile", "WriteRow", "CloseFile"} -> "Writing"
      [] OTHER -> p

\* C7 as claimed: the phases are entered only in the order Idle,
\* Validating, Fetching, Flattening, Writing, Done, so that Flattening is
\* complete before Writing begins; any phase may fail.
C7_AsClaimed ==
    [][LET a == Phase(pc)
           b == Phase(pc')
       IN  \/ a = b
           \/ <<a, b>> \in {<<"Idle", "Validating">>,
                            <<"Validating", "Fetching">>,
                            <<"Fetching", "Flattening">>,
                            <<"Flattening", "Writing">>,
                            <<"Writing", "Done">>}
           \/ (b = "Failed" /\ a \notin {"Done", "Failed"})]_vars

\* the attribute keys of an object, read off the object
AttrKeysOf(obj) ==
    IF "attributes" \in DOMAIN obj /\ IsDict(obj.attributes)
    THEN DictKeys(obj.attributes.dict) ELSE {}
AllAttrKeys(objs) == UNION {AttrKeysOf(objs[i]) : i \in 1..Len(objs)}

\* keys is the set of attribute keys of objs in increasing order
IsSortedUnion(keys, objs) ==
    /\ Range(keys) = AllAttrKeys(objs)
    /\ \A i, j \in 1..Len(keys) : i < j => StrLess(keys[i], keys[j])

\* C7: every run follows Idle, Validating, Fetching (page after page), then
\* inside write_objects_to_csv Writing and Flattening in turns: the output
\* directory is ensured, the column set is derived, the file is opened and
\* the header written, and each row is constructed and then written before
\* the next one is constructed.  Only the column set is complete when
\* writing begins.  Done is reached only from Writing, with the file
\* closed; an error in any phase leads to Failed and never to Done.
C7_Lifecycle ==
    /\ [][LET a == Phase(pc)
              b == Phase(pc')
          IN  \/ a = b
              \/ <<a, b>> \in {<<"Idle", "Validating">>,
                               <<"Validating", "Fetching">>,
                               <<"Fetching", "Writing">>,
                               <<"Writing", "Flattening">>,
                               <<"Flattening", "Writing">>,
                               <<"Writing", "Done">>}
              \/ (b = "Failed" /\ a \notin {"Done", "Failed"})]_vars
    /\ [][pc' = "Done" => pc = "CloseFile"]_vars
    /\ [][pc' = "CollectKeys" => pc = "EnsureDir"]_vars
    /\ [][pc' = "BuildRow" => pc \in {"OpenFile", "WriteRow"}]_vars
    /\ [][pc' = "WriteRow" => pc = "BuildRow"]_vars
    /\ [](pc = "CollectKeys" => dirExists /\ fieldnames = <<>>)
    /\ [](pc \in {"BuildRow", "WriteRow", "CloseFile", "Done"} =>
            /\ IsSortedUnion(attr_keys, objects)
            /\ file.header = fieldnames)
    /\ [](pc = "BuildRow" => file.open /\ Len(file.rows) = idx - 1)
    /\ [](pc = "Done" => error = NoError /\ ~file.open)
    /\ [](pc = "Failed" <=> error # NoError)

\* the second row is constructed after the first row was written
C7_Witness ==
    /\ pc = "BuildRow"
    /\ idx = 2
    /\ Len(file.rows) = 1
    /\ fsLog = <<"makedirs", "open", "writeheader", "writerow">>

\* the URL of the first page, as build_first_page_url prints it
FirstPageUrl ==
    Url("https://live.luigisbox.com", "/v1/content_export",
        "size=500&hit_fields=title%2Cweb_url&requested_types=serie")

\* C8: the client adds size, hit_fields and requested_types to the first
\* request only: every later request goes to exactly the href of the
\* previous page's next link.
C8_ParamsOnFirstRequestOnly ==
    \A i \in 1..Len(requests) :
        IF i = 1
        THEN requests[i].url = FirstPageUrl
        ELSE requests[i].url = NextHref(pages[i - 1].body)

C8_Witness ==
    /\ Len(requests) = 3
    /\ requests[1].url.query
          = "size=500&hit_fields=title%2Cweb_url&requested_types=serie"
    /\ requests[2].url = UrlY
    /\ requests[2].url.query = "cursor=xyz"
    /\ requests[3].url = UrlX

\* the header has been written
HeaderWritten == pc \in {"BuildRow", "WriteRow", "CloseFile", "Done"}

\* C9: the header is url, type, exact, the sorted union of the attribute
\* keys, nested; every row has one cell per column; and an object that
\* lacks an attribute key has an empty cell in that key's column.
C9_SameColumnsForAllRows ==
    HeaderWritten =>
        LET h == file.header
        IN  /\ Len(h) >= 4
            /\ SubSeq(h, 1, 3) = <<"url", "type", "exact">>
            /\ h[Len(h)] = "nested"
            /\ IsSortedUnion(SubSeq(h, 4, Len(h) - 1), objects)
            /\ \A i \in 1..Len(file.rows) :
                  /\ Len(file.rows[i]) = Len(h)
                  /\ \A j \in 4..(Len(h) - 1) :
                        h[j] \notin AttrKeysOf(objects[i])
                            => file.rows[i][j] = ""

\* C10: a successful export has one data row per fetched object, in fetch
\* order: row i is the row of object i, and while the rows are written the
\* file holds the rows of the first objects, in order.
C10_OneRowPerObject ==
    /\ HeaderWritten =>
          /\ Len(file.rows) <= Len(objects)
          /\ \A i \in 1..Len(file.rows) :
                file.rows[i] =
                    row_cells(build_row(objects[i],
                                        collect_attribute_keys(objects),
                                        file.header), file.header)
    /\ pc = "Done" =>
          /\ Len(file.rows) = Len(objects)
          /\ objects = ConcatPages(pages)

\* two objects on page 1, one on page 2: three rows, the third with an
\* empty cell for the attribute x that the third object does not have
C10_Witness ==
    /\ pc = "Done"
    /\ Len(pages) = 2
    /\ PageObjects(pages[1].body) = <<ObjA, ObjA>>
    /\ PageObjects(pages[2].body) = <<ObjB>>
    /\ requests[2].url = UrlX
    /\ file.header = <<"url", "type", "exact", "x", "y", "z", "nested">>
    /\ Len(file.rows) = 3
    /\ file.rows[1] = <<"a", "item", "True", "1", "[1, \"b\"]", "",
                        "[{\"k\": 1}]">>
    /\ file.rows[3] = <<"b", "", "", "", "s", "", "[]">>

\* the cause of a failed run: the credential check, a non-success status
\* on the last response, or the filesystem
FailureCause ==
    \/ (error = "RuntimeError" /\ BadCredentials /\ requests = <<>>)
    \/ (error = "HTTPError" /\ pages # <<>>
        /\ ~HttpSuccess(pages[Len(pages)]))
    \/ (error = "OSError" /\ FetchComplete)

\* C11: a page without the key objects adds no object and a page without
\* the key links ends pagination normally; an object without the key
\* attributes gets the row of the same object with no attributes, and an
\* object without the key nested the cell of the empty array; none of the
\* four makes the run fail.
C11_MissingKeysAreEmpty ==
    /\ pc = "Failed" => FailureCause
    /\ objects = ConcatPages(pages)
    /\ \A i \in 1..Len(pages) :
          (HttpSuccess(pages[i]) /\ "links" \notin DOMAIN pages[i].body)
              => /\ i = Len(pages)
                 /\ Len(requests) = i
                 /\ Returned
    /\ HeaderWritten =>
          \A i \in 1..Len(file.rows) :
              LET obj == objects[i]
                  h == file.header
              IN  /\ "attributes" \notin DOMAIN obj =>
                        file.rows[i] =
                            row_cells(build_row(
                                obj @@ ("attributes" :> Dict(<<>>)),
                                collect_attribute_keys(objects), h), h)
                  /\ "nested" \notin DOMAIN obj =>
                        file.rows[i][Len(h)] = "[]"
    /\ pc = "Done" => Len(file.rows) = Len(objects)

\* page 1 has no objects key, page 2 no links key; its object has neither
\* attributes nor nested and has its row
C11_Witness ==
    /\ pc = "Done"
    /\ Len(pages) = 2
    /\ "objects" \notin DOMAIN pages[1].body
    /\ "links" \notin DOMAIN pages[2].body
    /\ objects = <<ObjD>>
    /\ file.header = <<"url", "type", "exact", "nested">>
    /\ file.rows = <<<<"d", "", "", "[]">>>>

\* the endpoint in the data the digest of a request was computed over
SignedEndpoint(r) == r.headers.Authorization.digest.data[4]

\* the URL a request is meant for: the first page URL, then the href of the
\* previous page's next link
WireUrl(i) == IF i = 1 THEN FirstPageUrl ELSE NextHref(pages[i - 1].body)

\* C12: the endpoint that is signed is the path of the request URL and
\* nothing else, so that two requests whose URLs have the same path and
\* different query strings are signed over the same endpoint, while the
\* GET goes to the full URL, query string included.
C12_SignedEndpointIsPath ==
    /\ \A i \in 1..Len(requests) :
          /\ SignedEndpoint(requests[i]) = requests[i].url.path
          /\ requests[i].url = WireUrl(i)
    /\ \A i, j \in 1..Len(requests) :
          requests[i].url.path = requests[j].url.path
              => SignedEndpoint(requests[i]) = SignedEndpoint(requests[j])

\* the first page URL and a next href with a continuation parameter: the
\* same path, two query strings, one endpoint; a third URL has another path
C12_Witness ==
    /\ Len(requests) = 3
    /\ requests[1].url.query # ""
    /\ requests[2].url = UrlX
    /\ requests[1].url.query # requests[2].url.query
    /\ SignedEndpoint(requests[1]) = "/v1/content_export"
    /\ SignedEndpoint(requests[2]) = "/v1/content_export"
    /\ requests[3].url = UrlY
    /\ SignedEndpoint(requests[3]) = "/v1/content_export/more"

\* C13 as claimed: a call of build_signed_headers that reads a later clock
\* value than every call before it returns a header set whose Date and
\* Authorization differ from those of every earlier call for the same URL.
C13_AsClaimed ==
    [][(Len(requests') = Len(requests) + 1 /\ now' > now) =>
          \A i \in 1..Len(requests) :
              requests[i].url = requests'[Len(requests')].url
                  => /\ requests[i].headers.Date
                            # requests'[Len(requests')].headers.Date
                     /\ requests[i].headers.Authorization
                            # requests'[Len(requests')].headers.Authorization
      ]_vars

\* C13: each call of build_signed_headers reads the clock anew and prints it
\* with the resolution of one second: the Date of the last request is the
\* second of the last clock reading and the Dates never decrease; two calls
\* for the same URL return header sets that differ, in Date and in
\* Authorization, exactly when the clock readings fall in different
\* seconds, and byte-identical header sets when they fall in the same one.
C13_HeadersDifferBySecond ==
    /\ requests # <<>> =>
          requests[Len(requests)].headers.Date = now \div TicksPerSecond
    /\ \A i, j \in 1..Len(requests) :
          i < j => requests[i].headers.Date <= requests[j].headers.Date
    /\ \A i, j \in 1..Len(requests) :
          (i < j /\ requests[i].url = requests[j].url) =>
              IF requests[i].headers.Date = requests[j].headers.Date
              THEN requests[i].headers = requests[j].headers
              ELSE requests[i].headers.Authorization
                       # requests[j].headers.Authorization

\* three requests to the same next href: the first two within one second,
\* with identical headers, the third in the next second, with other ones
C13_Witness ==
    /\ Len(requests) = 3
    /\ requests[2].url = UrlX
    /\ requests[3].url = UrlX
    /\ now = 2
    /\ requests[2].headers.Date = 0
    /\ requests[3].headers.Date = 1
    /\ requests[2].headers.Authorization # requests[3].headers.Authorization

\* C14: whatever the attribute keys are, the cells url, type and exact of
\* a row hold the object's own url, type and exact (empty when missing),
\* the header starts with these three columns and ends with nested, and no
\* column name occurs twice.
C14_FixedColumnsVerbatim ==
    HeaderWritten =>
        LET h == file.header
        IN  /\ Len(h) >= 4
            /\ SubSeq(h, 1, 3) = <<"url", "type", "exact">>
            /\ h[Len(h)] = "nested"
            /\ \A i, j \in 1..Len(h) : i # j => h[i] # h[j]
            /\ \A i \in 1..Len(file.rows) :
                  /\ file.rows[i][1]
                        = csv_cell(Get(objects[i], "url", Str("")))
                  /\ file.rows[i][2]
                        = csv_cell(Get(objects[i], "type", Str("")))
                  /\ file.rows[i][3]
                        = csv_cell(Get(objects[i], "exact", Str("")))

\* C15: a run ends in Done or Failed once the server has answered every
\* request and has returned a non-success status or a page without a next
\* link; until then the loop goes on: after every successful page that
\* carries a next link another request is issued, however many pages
\* there were.
C15_RunEnds ==
    /\ <>(pc \in {"Done", "Failed"})
    /\ [](\A i \in 1..Len(pages) :
            (HttpSuccess(pages[i]) /\ CarriesNext(pages[i].body))
                => (i < Len(requests) \/ pc = "Fetching"))

\* the run has ended after as many pages as the server had
C15_Witness ==
    /\ pc = "Done"
    /\ Len(requests) = MaxPages
    /\ Len(pages) = MaxPages
    /\ \A i \in 1..(MaxPages - 1) : CarriesNext(pages[i].body)

\* some entry of the page's links has the rel `next`
HasNextEntry(body) ==
    \E k \in 1..Len(Links(body)) : IsNextEntry(Links(body)[k])

\* C16: after a successful page, the loop stops only when links hold no
\* entry whose rel is next: whenever such an entry is present another GET
\* is issued, to that entry's href, whatever total, objects and the URL
\* just fetched are.
C16_StopsOnlyWithoutNextEntry ==
    \A i \in 1..Len(pages) :
        (HttpSuccess(pages[i]) /\ HasNextEntry(pages[i].body))
            => \/ i = Len(pages) /\ pc = "Fetching"
                    /\ url = NextHref(pages[i].body)
               \/ i < Len(requests)
                    /\ requests[i + 1].url = NextHref(pages[i].body)

\* the date string that went into the digest of a request's Authorization
SignedDate(r) == r.headers.Authorization.digest.data[3]

\* C17: every GET is sent by a step that signs it first: the step that
\* adds a request is a step of the fetch loop, the request goes to the URL
\* the loop is at, its headers carry the date of the clock reading of that
\* very step (not of an earlier request), the digest is computed for the
\* path of that URL with the private key, and the Date header is the date
\* string that went into the digest.
C17_SignedBeforeEachGet ==
    [][requests' # requests =>
          /\ pc = "Fetching" /\ pc' = "Waiting"
          /\ Len(requests') = Len(requests) + 1
          /\ SubSeq(requests', 1, Len(requests)) = requests
          /\ LET r == requests'[Len(requests')]
             IN  /\ r.url = url
                 /\ r.headers.Date = now' \div TicksPerSecond
                 /\ SignedDate(r) = r.headers.Date
                 /\ SignedEndpoint(r) = url.path
                 /\ r.headers.Authorization.digest.key = PRIVATE_KEY
                 /\ r.headers.Authorization.digest.data[1] = "GET"
                 /\ r.headers.Authorization.public_key = PUBLIC_KEY]_vars

\* a second request was signed in a later second than the first
C17_Witness ==
    /\ pc = "Waiting"
    /\ Len(requests) = 2
    /\ requests[1].headers.Date = 0
    /\ SignedDate(requests[1]) = 0
    /\ requests[2].headers.Date = 1
    /\ SignedDate(requests[2]) = 1
    /\ SignedEndpoint(requests[2]) = requests[2].url.path

\* C18: the object list only grows at its end: every step leaves the
\* objects already in it in place and unchanged; the step that receives a
\* successful page appends that page's objects, in order, and nothing else;
\* every other step, those of collect_attribute_keys and
\* write_objects_to_csv included, leaves the list as it is.
C18_BufferOnlyGrows ==
    [][/\ Len(objects') >= Len(objects)
       /\ SubSeq(objects', 1, Len(objects)) = objects
       /\ IF pc = "Waiting" /\ HttpSuccess(pages'[Len(pages')])
          THEN objects' = objects \o PageObjects(pages'[Len(pages')].body)
          ELSE objects' = objects]_vars

\* two pages of objects were accumulated and written
C18_Witness ==
    /\ pc = "Done"
    /\ Len(pages) = 2
    /\ PageObjects(pages[1].body) # <<>>
    /\ PageObjects(pages[2].body) # <<>>
    /\ objects = PageObjects(pages[1].body) \o PageObjects(pages[2].body)
    /\ \E i \in 1..Len(objects) : "attributes" \in DOMAIN objects[i]

\* C19: when pagination completes with no object at all, the export goes
\* through the whole write: no row is built, the only failure possible is
\* the file system's, and at the end the output directory exists and the
\* file, closed, holds the header url, type, exact, nested and no data row.
C19_EmptyExportWritesHeader ==
    (FetchComplete /\ objects = <<>>)
    => /\ pc \in {"EnsureDir", "CollectKeys", "OpenFile", "CloseFile",
                  "Done", "Failed"}
       /\ pc = "Failed" => error = "OSError"
       /\ pc \in {"CloseFile", "Done"} =>
             /\ OUTPUT_CSV.dir # "" => dirExists
             /\ "header" \in DOMAIN file
             /\ file.header = <<"url", "type", "exact", "nested">>
             /\ file.rows = <<>>
       /\ pc = "Done" => "open" \in DOMAIN file /\ ~file.open

\* an export without objects ended well, the directory made on the way
C19_Witness ==
    /\ pc = "Done"
    /\ objects = <<>>
    /\ Len(pages) = 2
    /\ fsLog # <<>> /\ fsLog[1] = "makedirs"
    /\ dirExists
    /\ file = [header |-> <<"url", "type", "exact", "nested">>,
               rows |-> <<>>, open |-> FALSE]

====
